---- MODULE Spec2Model ----
(***************************************************************************)
(* Handle-ownership model of src/lib.rs (Rust bindings for libzfs).        *)
(*                                                                         *)
(* The Rust side is the set of wrapper objects (LibZfs, ZPool, ZfsDataset) *)
(* the caller holds; the native side is the table of handles libzfs has    *)
(* handed out.  Every operation of lib.rs is one action, the iteration     *)
(* operations being split at the callback boundary (walk start, one        *)
(* zfs_iter_collect call per delivered element, walk return).              *)
(***************************************************************************)
EXTENDS Integers, Sequences, FiniteSets, TLC

\* Bound on the number of wrapper objects constructed in one run.
MaxWrappers == 3

NULL == 0

\* Bound on the integer codes handed to the enumeration decoders.
MaxCode == 17

VARIABLES
    nat,     \* native handle table: handle id -> record (libzfs side)
    wr,      \* wrapper objects constructed so far: wrapper id -> record (Rust side)
    mode,    \* "running" | "unwinding" | "done" | "crashed"
    walk,    \* the iteration call in progress, or the one that just returned
    res,     \* result of the operation just performed
    errno,   \* the OS last error (std::io::Error::last_os_error)
    base,    \* number of wrappers the run starts with
    held     \* the SafeString the last name query returned; the caller keeps it
             \* until it has dropped the wrapper it read the name from

vars == <<nat, wr, mode, walk, res, errno, base, held>>

----------------------------------------------------------------------------
(* sys::zfs_type_t and sys::pool_state codes named by translate_enum!.     *)
ZFS_TYPE_FILESYSTEM == 1
ZFS_TYPE_SNAPSHOT == 2
ZFS_TYPE_VOLUME == 4
ZFS_TYPE_POOL == 8
ZFS_TYPE_BOOKMARK == 16

POOL_STATE_ACTIVE == 0
POOL_STATE_EXPORTED == 1
POOL_STATE_DESTROYED == 2
POOL_STATE_SPARE == 3
POOL_STATE_L2CACHE == 4
POOL_STATE_UNINITIALIZED == 5
POOL_STATE_UNAVAIL == 6
POOL_STATE_POTENTIALLY_ACTIVE == 7

----------------------------------------------------------------------------
(* The pool the native layer serves: pool "tank" with root filesystem      *)
(* "tank", which has one child filesystem and one snapshot; the child      *)
(* filesystem has three snapshots taken at distinct times.                 *)

World == <<
    [name |-> "tank",        type |-> ZFS_TYPE_FILESYSTEM, parent |-> 0, txg |-> 0],
    [name |-> "tank/data",   type |-> ZFS_TYPE_FILESYSTEM, parent |-> 1, txg |-> 0],
    [name |-> "tank@s",      type |-> ZFS_TYPE_SNAPSHOT,   parent |-> 1, txg |-> 1],
    [name |-> "tank/data@c", type |-> ZFS_TYPE_SNAPSHOT,   parent |-> 2, txg |-> 3],
    [name |-> "tank/data@a", type |-> ZFS_TYPE_SNAPSHOT,   parent |-> 2, txg |-> 1],
    [name |-> "tank/data@b", type |-> ZFS_TYPE_SNAPSHOT,   parent |-> 2, txg |-> 2] >>

\* The kinds of dataset the native walks enumerate.
FsTypes == {ZFS_TYPE_FILESYSTEM, ZFS_TYPE_VOLUME}
SnapTypes == {ZFS_TYPE_SNAPSHOT}

Objs == DOMAIN World

PoolNames == {"tank"}

\* Names a caller passes to the lookups.
LookupNames == {"tank", "tank/data", "nonexistent"}

\* libzfs error codes (sys::zfs_error) and OS error values a failing call leaves.
ErrCodes == {"EZFS_SUCCESS", "EZFS_NOENT", "EZFS_UNKNOWN"}
OsErrs == {"ENOENT", "ENOMEM"}
NoOsErr == "ESUCCESS"

----------------------------------------------------------------------------
(* Enumerations and the type mask (lib.rs 241-297).                        *)

(* 32-bit words.  A u32 is the record [hi, lo] of its two 16-bit halves; an  *)
(* i32 is the integer itself.                                              *)
Half == 65536

u32(n) == [hi |-> n \div Half, lo |-> n % Half]

RECURSIVE BitAnd(_, _)
BitAnd(a, b) ==
    IF a = 0 \/ b = 0 THEN 0
    ELSE (a % 2) * (b % 2) + 2 * BitAnd(a \div 2, b \div 2)

RECURSIVE BitOr(_, _)
BitOr(a, b) ==
    IF a = 0 THEN b
    ELSE IF b = 0 THEN a
    ELSE (IF a % 2 = 1 \/ b % 2 = 1 THEN 1 ELSE 0) + 2 * BitOr(a \div 2, b \div 2)

u32_and(x, y) == [hi |-> BitAnd(x.hi, y.hi), lo |-> BitAnd(x.lo, y.lo)]
u32_or(x, y) == [hi |-> BitOr(x.hi, y.hi), lo |-> BitOr(x.lo, y.lo)]

\* `x as i32`: the u32 reinterpreted as a signed 32-bit integer.
as_i32(x) ==
    IF x.hi >= Half \div 2 THEN (x.hi - Half) * Half + x.lo ELSE x.hi * Half + x.lo

\* `i as u32`: the signed 32-bit integer reinterpreted as a u32 (i mod 2^32).
as_u32(i) ==
    IF i >= 0 THEN u32(i)
    ELSE LET j == (i + 2147483647) + 1
         IN [hi |-> j \div Half + Half \div 2, lo |-> j % Half]

\* all() as the union of the defined types only.
ZfsTypeMask_all_defined ==
    u32(ZFS_TYPE_FILESYSTEM + ZFS_TYPE_SNAPSHOT + ZFS_TYPE_VOLUME + ZFS_TYPE_POOL
        + ZFS_TYPE_BOOKMARK)

\* ZfsTypeMask::all(): std::u32::MAX.
ZfsTypeMask_all == [hi |-> Half - 1, lo |-> Half - 1]

\* Into<u32> of an enum declared without `= ($sys as $repr)`: the variant's
\* position in the declaration.
ZfsType_into_position(t) ==
    CASE t = "Filesystem" -> u32(0)
      [] t = "Snapshot"   -> u32(1)
      [] t = "Volume"     -> u32(2)
      [] t = "Pool"       -> u32(3)
      [] t = "Bookmark"   -> u32(4)

\* impl Into<u32> for ZfsType: the variant's discriminant.
ZfsType_into(t) ==
    CASE t = "Filesystem" -> u32(ZFS_TYPE_FILESYSTEM)
      [] t = "Snapshot"   -> u32(ZFS_TYPE_SNAPSHOT)
      [] t = "Volume"     -> u32(ZFS_TYPE_VOLUME)
      [] t = "Pool"       -> u32(ZFS_TYPE_POOL)
      [] t = "Bookmark"   -> u32(ZFS_TYPE_BOOKMARK)

\* impl From<u32> for ZfsType: the variant with that code, or a panic.
ZfsType_from(raw) ==
    CASE raw = u32(ZFS_TYPE_FILESYSTEM) -> "Filesystem"
      [] raw = u32(ZFS_TYPE_SNAPSHOT)   -> "Snapshot"
      [] raw = u32(ZFS_TYPE_VOLUME)     -> "Volume"
      [] raw = u32(ZFS_TYPE_POOL)       -> "Pool"
      [] raw = u32(ZFS_TYPE_BOOKMARK)   -> "Bookmark"
      [] OTHER -> "PANIC"

\* impl From<ZfsType> for ZfsTypeMask.
ZfsTypeMask_from(t) == ZfsType_into(t)

\* impl BitOr for ZfsType: ZfsType | ZfsType.
ZfsType_bitor(t, rhs) == u32_or(ZfsType_into(t), ZfsType_into(rhs))

\* ZfsTypeMask | ZfsType dropping self.0.
ZfsTypeMask_bitor_rhs_only(m, rhs) == ZfsType_into(rhs)

\* impl BitOr<ZfsType> for ZfsTypeMask: ZfsTypeMask | ZfsType.
ZfsTypeMask_bitor(m, rhs) == u32_or(m, ZfsType_into(rhs))

ZfsTypes == {"Filesystem", "Snapshot", "Volume", "Pool", "Bookmark"}

\* Masks a caller passes to dataset_by_name.
LookupMasks ==
    {ZfsTypeMask_all, ZfsTypeMask_from("Snapshot")}

----------------------------------------------------------------------------
(* The native side.  A handle is an index into nat; NULL is 0.             *)
(*   kind    "lib" (libzfs_handle_t), "pool" (zpool_handle_t),             *)
(*           "ds" (zfs_handle_t)                                           *)
(*   open    allocated and not yet released                                *)
(*   closes  number of release calls the wrappers have made on it          *)
(*   sess    the session a pool/dataset handle was opened against          *)
(*   obj     the dataset a "ds" handle refers to                           *)
(*   lasterr the session's last libzfs error code                          *)
(*   cache   the session's own pool handle, the one every dataset handle   *)
(*           of the session points to (NULL until a dataset is opened)     *)

NatIds == DOMAIN nat
WrIds == DOMAIN wr

LibRec == [kind |-> "lib", open |-> TRUE, closes |-> 0, sess |-> NULL,
           obj |-> 0, lasterr |-> "EZFS_SUCCESS", cache |-> NULL]

PoolRec(s) == [kind |-> "pool", open |-> TRUE, closes |-> 0, sess |-> s,
               obj |-> 0, lasterr |-> "EZFS_SUCCESS", cache |-> NULL]

DsRec(s, o) == [kind |-> "ds", open |-> TRUE, closes |-> 0, sess |-> s,
                obj |-> o, lasterr |-> "EZFS_SUCCESS", cache |-> NULL]

\* The handle the native layer makes next.
Fresh(n) == Len(n) + 1

\* The table once session s has its pool handle.
WithCache(n, s) ==
    IF n[s].cache # NULL THEN n
    ELSE [Append(n, PoolRec(s)) EXCEPT ![s].cache = Fresh(n)]

\* The table after the native layer has made a dataset handle for o in session
\* s; the handle is Fresh(WithCache(n, s)).
AllocDs(n, s, o) == Append(WithCache(n, s), DsRec(s, o))

\* sys::zfs_open: the dataset the name and the type mask select, 0 when none.
zfs_open_match(name, types) ==
    LET hits == {o \in Objs : /\ World[o].name = name
                              /\ u32_and(u32(World[o].type), as_u32(types)) # u32(0)}
    IN IF hits = {} THEN 0 ELSE CHOOSE o \in hits : TRUE

\* sys::zfs_get_pool_handle: the pool handle the dataset handle points to.
zfs_get_pool_handle(h) == nat[nat[h].sess].cache

----------------------------------------------------------------------------
(* The Rust side.  A wrapper is [kind, h, live, from]: h the native handle  *)
(* it holds, live until dropped, from the operation that constructed it.   *)

NoWrapper == [kind |-> "none", h |-> NULL, live |-> FALSE, from |-> "none"]

Live(k) == {w \in WrIds : wr[w].live /\ wr[w].kind = k}
AnyLive == {w \in WrIds : wr[w].live}

LibZfs(h) == [kind |-> "lib", h |-> h, live |-> TRUE, from |-> "new"]
ZPool(h, from) == [kind |-> "pool", h |-> h, live |-> TRUE, from |-> from]
ZfsDataset(h, from) == [kind |-> "ds", h |-> h, live |-> TRUE, from |-> from]

\* An iteration call: self the dataset wrapper it was called on, plan the
\* datasets the native walk set out to deliver, todo those yet to deliver, given the native handles it has
\* passed to the callback, out the Vec behind the context pointer, calls the
\* number of callback invocations, rc the callback's last return value.
NoWalk == [active |-> FALSE, op |-> "none", self |-> 0, plan |-> <<>>, todo |-> <<>>,
           given |-> <<>>, out |-> <<>>, calls |-> 0, rc |-> 0]

\* The outcome of an operation: tag "Ok"/"Zfs"/"Sys" for the fallible lookups,
\* "Val"/"Panic" for the queries, "Vec" for the iterations; self the wrapper it
\* was called on, w the wrapper made, code the value or error code, raw what the
\* native call returned.
Result(op, self, tag, w, code, raw) ==
    [op |-> op, self |-> self, tag |-> tag, w |-> w, code |-> code, raw |-> raw]

NoRes == Result("none", 0, "None", 0, "", NULL)

\* A string value: its bytes, and the native handle whose buffer holds them
\* (NULL for a String that owns its storage).
Str(bytes, buf) == [bytes |-> bytes, buf |-> buf]

\* No name held; otherwise the SafeString s, read from handle h when the native
\* name was `name`.
NoHeld == [s |-> Str("", NULL), name |-> "", h |-> NULL]

\* The id of the wrapper constructed next.
Slot == Len(wr) + 1

Init ==
    /\ nat = <<>>
    /\ wr = <<>>
    /\ mode = "running"
    /\ walk = NoWalk
    /\ res = NoRes
    /\ errno = NoOsErr
    /\ base = 0
    /\ held = NoHeld

CanCall == mode = "running" /\ ~walk.active
CanMake == CanCall /\ Len(wr) - base < MaxWrappers

----------------------------------------------------------------------------
(* LibZfs (lib.rs 20-61).                                                  *)

\* LibZfs::new without the is_null check.
New_unchecked ==
    /\ CanMake
    /\ \A h \in NatIds : nat[h].kind # "lib"
    /\ \/ \E e \in OsErrs :
            /\ errno' = e
            /\ wr' = Append(wr, LibZfs(NULL))
            /\ res' = Result("new", 0, "Ok", Slot, "", NULL)
            /\ UNCHANGED nat
       \/ /\ nat' = Append(nat, LibRec)
          /\ wr' = Append(wr, LibZfs(Fresh(nat)))
          /\ res' = Result("new", 0, "Ok", Slot, "", Fresh(nat))
          /\ UNCHANGED errno
    /\ walk' = NoWalk
    /\ UNCHANGED <<mode, base>>
    /\ held' = NoHeld

\* LibZfs::new: libzfs_init returns NULL (leaving an OS error) or a new session.
\* The caller opens one session in a run.
New ==
    /\ CanMake
    /\ \A h \in NatIds : nat[h].kind # "lib"
    /\ \/ \E e \in OsErrs :
            /\ errno' = e
            /\ res' = Result("new", 0, "Sys", 0, e, NULL)
            /\ UNCHANGED <<nat, wr>>
       \/ /\ nat' = Append(nat, LibRec)
          /\ wr' = Append(wr, LibZfs(Fresh(nat)))
          /\ res' = Result("new", 0, "Ok", Slot, "", Fresh(nat))
          /\ UNCHANGED errno
    /\ walk' = NoWalk
    /\ UNCHANGED <<mode, base>>
    /\ held' = NoHeld

\* ptr_or_err testing for EZFS_SUCCESS instead of EZFS_UNKNOWN.
ptr_or_err_on_success(ptr, zfs_err, os_err) ==
    IF ptr = NULL
    THEN IF zfs_err # "EZFS_SUCCESS"
         THEN [tag |-> "Zfs", code |-> zfs_err]
         ELSE [tag |-> "Sys", code |-> os_err]
    ELSE [tag |-> "Ok", code |-> ""]

\* ptr_or_err without the is_null check.
ptr_or_err_unchecked(ptr, zfs_err, os_err) == [tag |-> "Ok", code |-> ""]

\* LibZfs::ptr_or_err, with the last-error code and the OS error it would read.
ptr_or_err(ptr, zfs_err, os_err) ==
    IF ptr = NULL
    THEN IF zfs_err # "EZFS_UNKNOWN"
         THEN [tag |-> "Zfs", code |-> zfs_err]
         ELSE [tag |-> "Sys", code |-> os_err]
    ELSE [tag |-> "Ok", code |-> ""]

\* A lookup whose native open call returns ptr, having left last-error code c
\* in the session and OS error e; n is the native table after the call and
\* wrapper what `.map(|handle| ..)` makes of ptr.
Lookup(op, w, n, ptr, c, e, wrapper) ==
    LET r == ptr_or_err(ptr, c, e) IN
    /\ nat' = [n EXCEPT ![wr[w].h].lasterr = c]
    /\ wr' = IF r.tag = "Ok" THEN Append(wr, wrapper) ELSE wr
    /\ res' = Result(op, w, r.tag, IF r.tag = "Ok" THEN Slot ELSE 0, r.code, ptr)
    /\ errno' = e
    /\ walk' = NoWalk
    /\ UNCHANGED <<mode, base>>
    /\ held' = NoHeld

\* LibZfs::pool_by_name: zpool_open returns a new pool handle for a pool that
\* exists, leaving the session's last error as it was, or NULL.
PoolByName(w, name) ==
    /\ CanMake
    /\ w \in Live("lib")
    /\ \/ /\ name \in PoolNames
          /\ Lookup("pool_by_name", w, Append(nat, PoolRec(wr[w].h)),
                    Fresh(nat), nat[wr[w].h].lasterr, errno,
                    ZPool(Fresh(nat), "pool_by_name"))
       \/ \E c \in ErrCodes, e \in OsErrs :
            Lookup("pool_by_name", w, nat, NULL, c, e, ZPool(NULL, "pool_by_name"))

\* LibZfs::dataset_by_name: zfs_open returns a new dataset handle for a dataset
\* that exists and is of a type in the mask, or NULL.
DatasetByName(w, name, mask) ==
    /\ CanMake
    /\ w \in Live("lib")
    /\ LET o == zfs_open_match(name, as_i32(mask))
           n == AllocDs(nat, wr[w].h, o)
       IN
       \/ /\ o # 0
          /\ Lookup("dataset_by_name", w, n, Len(n), nat[wr[w].h].lasterr, errno,
                    ZfsDataset(Len(n), "dataset_by_name"))
       \/ \E c \in ErrCodes, e \in OsErrs :
            Lookup("dataset_by_name", w, nat, NULL, c, e,
                   ZfsDataset(NULL, "dataset_by_name"))

----------------------------------------------------------------------------
(* Calls on handles the native layer no longer backs.  A native call on a   *)
(* NULL handle, on a released handle, or on a handle whose session has     *)
(* been finalized is undefined: the process may crash, or the call may     *)
(* return as if nothing were wrong.                                        *)

Hazard(h) ==
    IF h = NULL THEN "null"
    ELSE IF ~nat[h].open THEN "freed"
    ELSE IF nat[h].kind # "lib" /\ ~nat[nat[h].sess].open THEN "finalized"
    ELSE "none"

\* The process dies, and with it every handle and wrapper.
Crash(h) ==
    /\ Hazard(h) # "none"
    /\ mode' = "crashed"
    /\ nat' = <<>>
    /\ wr' = <<>>
    /\ walk' = NoWalk
    /\ res' = NoRes
    /\ UNCHANGED <<errno, base>>
    /\ held' = NoHeld

----------------------------------------------------------------------------
(* Drop (lib.rs 55-61, 82-88, 191-197): the wrapper passes its handle to   *)
(* the native release call, whatever the handle is.                        *)

CanDrop == mode \in {"running", "unwinding"} /\ ~walk.active

\* A Drop that makes no release call.
native_close_missing(n, h) == n

\* libzfs_fini / zpool_close / zfs_close on handle h.
native_close(n, h) ==
    IF h = NULL THEN n
    ELSE [n EXCEPT ![h].open = FALSE, ![h].closes = @ + 1]

\* The wrapper goes out of scope; of the values the caller holds, the model
\* follows the name read from this wrapper's handle.
DropBody(w) ==
    \/ Crash(wr[w].h)
    \/ /\ wr' = [wr EXCEPT ![w].live = FALSE]
       /\ nat' = native_close(nat, wr[w].h)
       /\ res' = Result("drop", w, "None", 0, "", wr[w].h)
       /\ walk' = NoWalk
       /\ held' = IF held.h = wr[w].h THEN held ELSE NoHeld
       /\ UNCHANGED <<mode, errno, base>>

DropLibZfs(w) == CanDrop /\ w \in Live("lib") /\ DropBody(w)
DropZPool(w) == CanDrop /\ w \in Live("pool") /\ DropBody(w)
DropZfsDataset(w) == CanDrop /\ w \in Live("ds") /\ DropBody(w)

\* The program ends (after a normal return or at the end of an unwind) once
\* every wrapper has gone out of scope.
Finish ==
    /\ CanDrop
    /\ AnyLive = {}
    /\ mode' = "done"
    /\ res' = NoRes
    /\ walk' = NoWalk
    /\ UNCHANGED <<nat, wr, errno, base>>
    /\ held' = NoHeld

----------------------------------------------------------------------------
(* ZPool (lib.rs 68-80).                                                   *)

\* From<u32> for ZPoolState with a default arm in place of the panic.
ZPoolState_from_default(raw) ==
    CASE raw = u32(POOL_STATE_ACTIVE)             -> "Active"
      [] raw = u32(POOL_STATE_EXPORTED)           -> "Exported"
      [] raw = u32(POOL_STATE_DESTROYED)          -> "Destroyed"
      [] raw = u32(POOL_STATE_SPARE)              -> "Spare"
      [] raw = u32(POOL_STATE_L2CACHE)            -> "L2Cache"
      [] raw = u32(POOL_STATE_UNINITIALIZED)      -> "Uninitialized"
      [] raw = u32(POOL_STATE_UNAVAIL)            -> "Unavailable"
      [] raw = u32(POOL_STATE_POTENTIALLY_ACTIVE) -> "PotentiallyActive"
      [] OTHER -> "Unavailable"

\* impl From<u32> for ZPoolState: the variant with that code, or a panic.
ZPoolState_from(raw) ==
    CASE raw = u32(POOL_STATE_ACTIVE)             -> "Active"
      [] raw = u32(POOL_STATE_EXPORTED)           -> "Exported"
      [] raw = u32(POOL_STATE_DESTROYED)          -> "Destroyed"
      [] raw = u32(POOL_STATE_SPARE)              -> "Spare"
      [] raw = u32(POOL_STATE_L2CACHE)            -> "L2Cache"
      [] raw = u32(POOL_STATE_UNINITIALIZED)      -> "Uninitialized"
      [] raw = u32(POOL_STATE_UNAVAIL)            -> "Unavailable"
      [] raw = u32(POOL_STATE_POTENTIALLY_ACTIVE) -> "PotentiallyActive"
      [] OTHER -> "PANIC"

\* impl Into<u32> for ZPoolState: the variant's discriminant.
ZPoolState_into(v) ==
    CASE v = "Active"            -> u32(POOL_STATE_ACTIVE)
      [] v = "Exported"          -> u32(POOL_STATE_EXPORTED)
      [] v = "Destroyed"         -> u32(POOL_STATE_DESTROYED)
      [] v = "Spare"             -> u32(POOL_STATE_SPARE)
      [] v = "L2Cache"           -> u32(POOL_STATE_L2CACHE)
      [] v = "Uninitialized"     -> u32(POOL_STATE_UNINITIALIZED)
      [] v = "Unavailable"       -> u32(POOL_STATE_UNAVAIL)
      [] v = "PotentiallyActive" -> u32(POOL_STATE_POTENTIALLY_ACTIVE)

ZPoolStates == {"Active", "Exported", "Destroyed", "Spare", "L2Cache",
                "Uninitialized", "Unavailable", "PotentiallyActive"}

\* get_state keeping only the low byte of the value returned.
get_state_low_byte(raw) == ZPoolState_from(u32(raw % 256))

\* ZPool::get_state on the value zpool_get_state returned: `raw as
\* sys::pool_state_t`, then ZPoolState::from.
get_state(raw) == ZPoolState_from(as_u32(raw))

\* Values zpool_get_state returns (a C int).
RawStates == {POOL_STATE_ACTIVE, POOL_STATE_POTENTIALLY_ACTIVE,
              POOL_STATE_POTENTIALLY_ACTIVE + 1, -1}

\* A query on wrapper w answers v, or panics and starts the unwind; it opens and
\* closes nothing.
Answer(op, w, v, raw) ==
    /\ res' = Result(op, w, IF v = "PANIC" THEN "Panic" ELSE "Val", 0, v, raw)
    /\ mode' = IF v = "PANIC" THEN "unwinding" ELSE mode
    /\ walk' = NoWalk
    /\ UNCHANGED <<nat, wr, errno, base>>
    /\ held' = NoHeld

\* ZPool::get_state.
GetState(w) ==
    /\ CanCall
    /\ w \in Live("pool")
    /\ \/ Crash(wr[w].h)
       \/ \E raw \in RawStates :
            Answer("get_state", w, get_state(raw), raw)

\* What a native name getter hands back: the name, or whatever the memory of a
\* dead handle holds.
InvalidUtf8 == "\\xff"
NativeName(h, name) ==
    IF Hazard(h) \in {"null", "freed"} THEN {name, InvalidUtf8} ELSE {name}

\* CStr::to_str().expect(..): the bytes as a &str, or a panic.
to_str(bytes) == IF bytes = InvalidUtf8 THEN "PANIC" ELSE bytes

\* The name returned as a &str still pointing into the buffer of handle h.
to_owned_borrowed(v, h) == Str(v, h)

\* utf8_verified.to_owned(): a String with storage of its own, whatever handle
\* h the &str was read from.
to_owned(v, h) == Str(v, NULL)

\* A name query on wrapper w reads `bytes` where the native name is `name`: it
\* returns the SafeString made of the copy, or panics and starts the unwind; it
\* opens and closes nothing.
AnswerName(op, w, bytes, name) ==
    /\ res' = Result(op, w, IF to_str(bytes) = "PANIC" THEN "Panic" ELSE "Val", 0,
                     to_str(bytes), 0)
    /\ mode' = IF to_str(bytes) = "PANIC" THEN "unwinding" ELSE mode
    /\ held' = IF to_str(bytes) = "PANIC" THEN NoHeld
               ELSE [s |-> to_owned(to_str(bytes), wr[w].h), name |-> name,
                     h |-> wr[w].h]
    /\ walk' = NoWalk
    /\ UNCHANGED <<nat, wr, errno, base>>

\* ZPool::get_name.
PoolGetName(w) ==
    /\ CanCall
    /\ w \in Live("pool")
    /\ \/ Crash(wr[w].h)
       \/ \E bytes \in NativeName(wr[w].h, "tank") :
            AnswerName("pool.get_name", w, bytes, "tank")

----------------------------------------------------------------------------
(* ZfsDataset (lib.rs 95-197).                                             *)

\* The dataset a handle refers to, 0 for a NULL handle.
ObjOf(h) == IF h = NULL THEN 0 ELSE nat[h].obj

NameOf(h) == IF h = NULL THEN "" ELSE World[nat[h].obj].name

\* sys::zfs_get_type: the dataset's type code; anything from a NULL handle.
NativeType(h) ==
    IF h = NULL THEN {0, ZFS_TYPE_FILESYSTEM} ELSE {World[nat[h].obj].type}

\* ZfsDataset::get_type.
GetType(w) ==
    /\ CanCall
    /\ w \in Live("ds")
    /\ \/ Crash(wr[w].h)
       \/ \E raw \in NativeType(wr[w].h) :
            Answer("get_type", w, ZfsType_from(u32(raw)), raw)

\* ZfsDataset::get_name.
GetName(w) ==
    /\ CanCall
    /\ w \in Live("ds")
    /\ \/ Crash(wr[w].h)
       \/ \E bytes \in NativeName(wr[w].h, NameOf(wr[w].h)) :
            AnswerName("get_name", w, bytes, NameOf(wr[w].h))

\* ZfsDataset::get_pool_name.
GetPoolName(w) ==
    /\ CanCall
    /\ w \in Live("ds")
    /\ \/ Crash(wr[w].h)
       \/ \E bytes \in NativeName(wr[w].h, IF wr[w].h = NULL THEN "" ELSE "tank") :
            AnswerName("get_pool_name", w, bytes, IF wr[w].h = NULL THEN "" ELSE "tank")

\* The handle ZfsDataset::get_pool wraps: whatever zfs_get_pool_handle returns.
get_pool(h) == IF h = NULL THEN NULL ELSE zfs_get_pool_handle(h)

\* ZfsDataset::get_pool.
GetPool(w) ==
    /\ CanMake
    /\ w \in Live("ds")
    /\ \/ Crash(wr[w].h)
       \/ /\ wr' = Append(wr, ZPool(get_pool(wr[w].h), "get_pool"))
          /\ res' = Result("get_pool", w, "Val", Slot, "", get_pool(wr[w].h))
          /\ walk' = NoWalk
          /\ UNCHANGED <<nat, mode, errno, base>>
          /\ held' = NoHeld

\* sys::zfs_handle_dup(h): the table with a new handle for the same dataset,
\* which is Fresh(n).
zfs_handle_dup(n, h) == Append(n, DsRec(n[h].sess, n[h].obj))

\* impl Clone for ZfsDataset: the duplicate call returns a new handle or NULL, and
\* the result is wrapped as it is.
Clone(w) ==
    /\ CanMake
    /\ w \in Live("ds")
    /\ \/ Crash(wr[w].h)
       \/ /\ wr[w].h # NULL
          /\ nat' = zfs_handle_dup(nat, wr[w].h)
          /\ wr' = Append(wr, ZfsDataset(Fresh(nat), "clone"))
          /\ res' = Result("clone", w, "Val", Slot, "", Fresh(nat))
          /\ walk' = NoWalk
          /\ UNCHANGED <<mode, errno, base>>
          /\ held' = NoHeld
       \/ /\ wr' = Append(wr, ZfsDataset(NULL, "clone"))
          /\ res' = Result("clone", w, "Val", Slot, "", NULL)
          /\ walk' = NoWalk
          /\ UNCHANGED <<nat, mode, errno, base>>
          /\ held' = NoHeld

----------------------------------------------------------------------------
(* Iteration (lib.rs 126-182).                                             *)

IterOps == {"get_snapshots", "get_snapshots_ordered", "get_filesystems", "get_children"}

ChildrenOf(o, types) == {c \in Objs : World[c].parent = o /\ World[c].type \in types}

\* The datasets each native walk visits.
Visited(o, call) ==
    CASE call = "zfs_iter_snapshots"        -> ChildrenOf(o, SnapTypes)
      [] call = "zfs_iter_snapshots_sorted" -> ChildrenOf(o, SnapTypes)
      [] call = "zfs_iter_filesystems"      -> ChildrenOf(o, FsTypes)
      [] call = "zfs_iter_children"         -> ChildrenOf(o, FsTypes \cup SnapTypes)

\* Sequences without repetition over S.
Arrangements(S) ==
    {q \in UNION {[1..k -> S] : k \in 0..Cardinality(S)} :
        \A i, j \in DOMAIN q : i # j => q[i] # q[j]}

Range(q) == {q[i] : i \in DOMAIN q}

\* zfs_iter_snapshots_sorted: what the plain walk found, by creation txg.
ByCreation(q) ==
    CHOOSE r \in Arrangements(Range(q)) :
        /\ Len(r) = Len(q)
        /\ \A i, j \in DOMAIN r : i < j => World[r[i]].txg <= World[r[j]].txg

\* get_snapshots_ordered calling the plain snapshot walk.
iter_call_unsorted(op) ==
    CASE op = "get_snapshots"         -> "zfs_iter_snapshots"
      [] op = "get_snapshots_ordered" -> "zfs_iter_snapshots"
      [] op = "get_filesystems"       -> "zfs_iter_filesystems"
      [] op = "get_children"          -> "zfs_iter_children"

\* The native walk each operation calls.
iter_call(op) ==
    CASE op = "get_snapshots"         -> "zfs_iter_snapshots"
      [] op = "get_snapshots_ordered" -> "zfs_iter_snapshots_sorted"
      [] op = "get_filesystems"       -> "zfs_iter_filesystems"
      [] op = "get_children"          -> "zfs_iter_children"

\* The deliveries a native walk may make for dataset o: the datasets it visits
\* in an order of its own, or only some of them when it fails partway.
Deliveries(o, call) ==
    IF o = 0 THEN {<<>>}
    ELSE IF call = "zfs_iter_snapshots_sorted"
         THEN {ByCreation(q) : q \in Arrangements(Visited(o, call))}
         ELSE Arrangements(Visited(o, call))

\* get_snapshots / get_snapshots_ordered / get_filesystems / get_children, up to
\* the native walk call with an empty Vec behind the context pointer.
WalkStart(w, op) ==
    /\ CanCall
    /\ w \in Live("ds")
    /\ \/ Crash(wr[w].h)
       \/ \E q \in Deliveries(ObjOf(wr[w].h), iter_call(op)) :
            /\ Len(wr) - base + Len(q) <= MaxWrappers
            /\ walk' = [active |-> TRUE, op |-> op, self |-> w, plan |-> q, todo |-> q,
                        given |-> <<>>, out |-> <<>>, calls |-> 0, rc |-> 0]
            /\ res' = NoRes
            /\ UNCHANGED <<nat, wr, mode, errno, base>>
            /\ held' = NoHeld

\* zfs_iter_collect returning 1.
zfs_iter_collect_stop(handle, vec, wrs) ==
    [vec |-> Append(vec, Len(wrs) + 1),
     wrs |-> Append(wrs, ZfsDataset(handle, "iter")),
     rc  |-> 1]

\* extern "C" fn zfs_iter_collect(handle, context): the Vec and the wrappers
\* after the push, and the value returned to the walk.
zfs_iter_collect(handle, vec, wrs) ==
    [vec |-> Append(vec, Len(wrs) + 1),
     wrs |-> Append(wrs, ZfsDataset(handle, "iter")),
     rc  |-> 0]

\* The walk makes a handle for the next dataset and passes it to the callback;
\* a non-zero return stops the walk.
Collect ==
    /\ walk.active
    /\ walk.todo # <<>>
    /\ LET s == nat[wr[walk.self].h].sess
           n == AllocDs(nat, s, Head(walk.todo))
           h == Len(n)
           c == zfs_iter_collect(h, walk.out, wr)
       IN /\ nat' = n
          /\ wr' = c.wrs
          /\ walk' = [walk EXCEPT !.todo = IF c.rc = 0 THEN Tail(@) ELSE <<>>,
                                  !.given = Append(@, h),
                                  !.out = c.vec,
                                  !.calls = @ + 1,
                                  !.rc = c.rc]
    /\ UNCHANGED <<mode, res, errno, base, held>>

\* The status the native walk returns for having delivered q of dataset o's
\* children: 0 when it delivered all it visits, non-zero when it failed partway.
iter_status(o, call, q) == IF Range(q) = Visited(o, call) THEN 0 ELSE -1

\* An iteration that looks at the walk's status and reports a failed walk.
WalkReturn_checked ==
    /\ walk.active
    /\ walk.todo = <<>>
    /\ walk' = [walk EXCEPT !.active = FALSE]
    /\ LET status == iter_status(ObjOf(wr[walk.self].h), iter_call(walk.op), walk.plan)
       IN res' = Result(walk.op, walk.self, IF status = 0 THEN "Vec" ELSE "Sys",
                        0, "", status)
    /\ UNCHANGED <<nat, wr, mode, errno, base>>
    /\ held' = NoHeld

\* The walk call returns (its status is not looked at) and the Vec is returned.
WalkReturn ==
    /\ walk.active
    /\ walk.todo = <<>>
    /\ walk' = [walk EXCEPT !.active = FALSE]
    /\ res' = Result(walk.op, walk.self, "Vec", 0, "", 0)
    /\ UNCHANGED <<nat, wr, mode, errno, base>>
    /\ held' = NoHeld

----------------------------------------------------------------------------
Next ==
    \/ New
    \/ \E w \in WrIds, name \in LookupNames : PoolByName(w, name)
    \/ \E w \in WrIds, name \in LookupNames, mask \in LookupMasks :
            DatasetByName(w, name, mask)
    \/ \E w \in WrIds : DropLibZfs(w)
    \/ \E w \in WrIds : DropZPool(w)
    \/ \E w \in WrIds : DropZfsDataset(w)
    \/ \E w \in WrIds : GetState(w)
    \/ \E w \in WrIds : PoolGetName(w)
    \/ \E w \in WrIds : GetType(w)
    \/ \E w \in WrIds : GetName(w)
    \/ \E w \in WrIds : GetPoolName(w)
    \/ \E w \in WrIds : GetPool(w)
    \/ \E w \in WrIds : Clone(w)
    \/ \E w \in WrIds, op \in IterOps : WalkStart(w, op)
    \/ Collect
    \/ WalkReturn
    \/ Finish

Spec == Init /\ [][Next]_vars

----------------------------------------------------------------------------
(* Runs that start where LibZfs::new and dataset_by_name have succeeded    *)
(* (a session and one dataset wrapper exist) and go on with the dataset's  *)
(* own operations.                                                         *)

InitDataset ==
    /\ \E name \in {"tank", "tank/data"} :
          nat = AllocDs(<<LibRec>>, 1, zfs_open_match(name, as_i32(ZfsTypeMask_all)))
    /\ wr = <<LibZfs(1), ZfsDataset(3, "dataset_by_name")>>
    /\ mode = "running"
    /\ walk = NoWalk
    /\ res = NoRes
    /\ errno = NoOsErr
    /\ base = 2
    /\ held = NoHeld

NextDataset ==
    \/ \E w \in WrIds : DropLibZfs(w)
    \/ \E w \in WrIds : DropZPool(w)
    \/ \E w \in WrIds : DropZfsDataset(w)
    \/ \E w \in WrIds : GetState(w)
    \/ \E w \in WrIds : PoolGetName(w)
    \/ \E w \in WrIds : GetType(w)
    \/ \E w \in WrIds : GetName(w)
    \/ \E w \in WrIds : GetPoolName(w)
    \/ \E w \in WrIds : GetPool(w)
    \/ \E w \in WrIds : Clone(w)
    \/ \E w \in WrIds, op \in IterOps : WalkStart(w, op)
    \/ Collect
    \/ WalkReturn
    \/ Finish

SpecDataset == InitDataset /\ [][NextDataset]_vars

\* The same start, going on with iterations, queries of what they return, and
\* drops.
NextIter ==
    \/ \E w \in WrIds, op \in IterOps : WalkStart(w, op)
    \/ Collect
    \/ WalkReturn
    \/ \E w \in WrIds : GetName(w)
    \/ \E w \in WrIds : GetType(w)
    \/ \E w \in WrIds : DropLibZfs(w)
    \/ \E w \in WrIds : DropZfsDataset(w)
    \/ Finish

SpecIter == InitDataset /\ [][NextIter]_vars

----------------------------------------------------------------------------
(* The value types on their own (lib.rs 200-297): the enumeration          *)
(* conversions and the mask operations applied to values, with no handle   *)
(* involved.                                                               *)

\* u32 codes handed to the decoders: the small ones, and ones whose upper half
\* is set while the lower half reads as a defined code.
Codes ==
    {u32(n) : n \in 0..MaxCode}
        \cup {[hi |-> 1, lo |-> 0], [hi |-> 1, lo |-> 1], [hi |-> Half \div 2, lo |-> 0],
              [hi |-> Half - 1, lo |-> 7], ZfsTypeMask_all}

\* C ints zpool_get_state may hand back.
Ints ==
    (-MaxCode..MaxCode)
        \cup {2147483647, -2147483647 - 1, Half, Half + 1, 7 - Half, -Half}

\* The outcome of a call on values: the operation, its self and other argument,
\* and the value returned or the panic.
Value(op, self, arg, tag, val) ==
    [op |-> op, self |-> self, arg |-> arg, tag |-> tag, val |-> val]

\* A call returns val, or panics and starts the unwind.
Returns(op, self, arg, tag, val) ==
    /\ mode = "running"
    /\ res' = Value(op, self, arg, tag, val)
    /\ mode' = IF tag = "Panic" THEN "unwinding" ELSE mode
    /\ UNCHANGED <<nat, wr, walk, errno, base>>
    /\ held' = NoHeld

Decoded(v) == IF v = "PANIC" THEN "Panic" ELSE "Val"

\* ZPoolState::from(raw).
ZPoolStateFrom ==
    \E raw \in Codes :
        Returns("ZPoolState::from", 0, raw,
                Decoded(ZPoolState_from(raw)), ZPoolState_from(raw))

\* Into::<u32>::into(state).
ZPoolStateInto ==
    \E v \in ZPoolStates :
        Returns("ZPoolState::into", v, 0, "Val", ZPoolState_into(v))

\* ZfsType::from(raw).
ZfsTypeFrom ==
    \E raw \in Codes :
        Returns("ZfsType::from", 0, raw,
                Decoded(ZfsType_from(raw)), ZfsType_from(raw))

\* Into::<u32>::into(type).
ZfsTypeInto ==
    \E t \in ZfsTypes :
        Returns("ZfsType::into", t, 0, "Val", ZfsType_into(t))

\* The conversion ZPool::get_state makes of the C int the native call returned.
StateOfInt ==
    \E raw \in Ints :
        Returns("get_state", 0, raw, Decoded(get_state(raw)), get_state(raw))

MaskOps == {"ZfsTypeMask::all", "ZfsTypeMask::from", "ZfsType::bitor",
            "ZfsTypeMask::bitor"}

\* ZfsTypeMask::all().
MaskAll ==
    Returns("ZfsTypeMask::all", 0, 0, "Val", ZfsTypeMask_all)

\* ZfsTypeMask::from(t).
MaskFrom ==
    \E t \in ZfsTypes :
        Returns("ZfsTypeMask::from", 0, t, "Val", ZfsTypeMask_from(t))

\* t | rhs.
TypeBitOr ==
    \E t, rhs \in ZfsTypes :
        Returns("ZfsType::bitor", t, rhs, "Val", ZfsType_bitor(t, rhs))

\* mask | rhs, the mask being the one the last call returned.
MaskBitOr ==
    /\ res.op \in MaskOps
    /\ \E rhs \in ZfsTypes :
        Returns("ZfsTypeMask::bitor", res.val, rhs, "Val",
                ZfsTypeMask_bitor(res.val, rhs))

NextValues ==
    \/ ZPoolStateFrom
    \/ ZPoolStateInto
    \/ ZfsTypeFrom
    \/ ZfsTypeInto
    \/ StateOfInt
    \/ MaskAll
    \/ MaskFrom
    \/ TypeBitOr
    \/ MaskBitOr

SpecValues == Init /\ [][NextValues]_vars

----------------------------------------------------------------------------
(* Claims.                                                                 *)

PoolWrappers == {w \in WrIds : wr[w].kind = "pool" /\ wr[w].h # NULL}
DsWrappers == {w \in WrIds : wr[w].kind = "ds" /\ wr[w].h # NULL}

\* C1: every wrapper's native handle is passed to its release call exactly once
\* over the whole run: never twice while the run lasts, and exactly once by the
\* time the program has ended, whatever the exit path.
C1_ReleasedExactlyOnce ==
    \A w \in WrIds :
        wr[w].h # NULL =>
            /\ nat[wr[w].h].closes <= 1
            /\ (mode = "done" => nat[wr[w].h].closes = 1)

\* C2: no two ZPool wrappers hold the same native pool handle, no pool handle is
\* closed more than once, and none is closed while an open dataset handle still
\* points to it.
C2_NoPoolAliasing ==
    /\ \A v, w \in PoolWrappers : v # w => wr[v].h # wr[w].h
    /\ \A h \in NatIds : nat[h].kind = "pool" => nat[h].closes <= 1
    /\ \A h \in NatIds :
          (nat[h].kind = "ds" /\ nat[h].open) => nat[zfs_get_pool_handle(h)].open

\* C3: a clone wraps a new native handle for the same dataset, not shared with
\* any other wrapper, that stays open until the clone itself is dropped and is
\* then closed exactly once, whatever happens to the original.
C3_CloneIsOwnDuplicate ==
    \A w \in WrIds :
        wr[w].from = "clone" =>
            /\ wr[w].h # NULL
            /\ \A v \in WrIds \ {w} : wr[v].h # wr[w].h
            /\ nat[wr[w].h].kind = "ds"
            /\ IF wr[w].live
               THEN nat[wr[w].h].open /\ nat[wr[w].h].closes = 0
               ELSE ~nat[wr[w].h].open /\ nat[wr[w].h].closes = 1

LookupOps == {"pool_by_name", "dataset_by_name"}

\* C4: after a lookup whose native open call returned NULL the result is the
\* system error made from the OS last error when the session's last-error code
\* is EZFS_UNKNOWN, and the domain error carrying that code otherwise; after one
\* whose native call returned a handle the result is Ok with a wrapper of that
\* handle, whatever last-error code the session holds.
C4_ErrorClassification ==
    res.op \in LookupOps =>
        LET zfs_err == nat[wr[res.self].h].lasterr IN
        IF res.raw = NULL
        THEN IF zfs_err = "EZFS_UNKNOWN"
             THEN res.tag = "Sys" /\ res.code = errno
             ELSE res.tag = "Zfs" /\ res.code = zfs_err
        ELSE /\ res.tag = "Ok"
             /\ wr[res.w].h = res.raw
             /\ wr[res.w].live

\* A lookup has succeeded in a session whose last-error code is the stale
\* EZFS_UNKNOWN of an earlier failure.
C4_Witness ==
    /\ res.op \in LookupOps
    /\ res.tag = "Ok"
    /\ nat[wr[res.self].h].lasterr = "EZFS_UNKNOWN"

OpenHandles(n) == {h \in DOMAIN n : n[h].open}

\* C5: a lookup whose native open call returns NULL ends with a DomainError or a
\* SystemError, not a panic and not a wrapper; it constructs no wrapper, makes no
\* release call, leaves the set of open native handles as it was, and leaves the
\* LibZfs it was called on live, its session open and the program running.
C5_FailedLookup ==
    [][(res'.op \in LookupOps /\ res'.raw = NULL) =>
          /\ res'.tag \in {"Zfs", "Sys"}
          /\ res'.w = 0
          /\ wr' = wr
          /\ DOMAIN nat' = DOMAIN nat
          /\ OpenHandles(nat') = OpenHandles(nat)
          /\ \A h \in DOMAIN nat : nat'[h].closes = nat[h].closes
          /\ mode' = "running"
          /\ wr'[res'.self].live
          /\ nat'[wr'[res'.self].h].open]_vars

\* A lookup has failed while a pool opened earlier through the same LibZfs is
\* still held.
C5_Witness ==
    /\ res.op \in LookupOps
    /\ res.raw = NULL
    /\ res.tag \in {"Zfs", "Sys"}
    /\ \E w \in WrIds : wr[w].kind = "pool" /\ wr[w].live /\ nat[wr[w].h].open

LibHandles == {h \in NatIds : nat[h].kind = "lib"}

\* C6: LibZfs::new ends in a SystemError carrying the OS last error exactly when
\* libzfs_init returned NULL, and then no LibZfs and no session exist for it;
\* otherwise it ends Ok with a LibZfs of a new open session.  Each session is
\* held by one LibZfs and libzfs_fini has been called on it once if that LibZfs
\* has been dropped and not at all if it has not.
C6_OpenAndFinalize ==
    /\ res.op = "new" =>
          /\ res.tag \in {"Sys", "Ok"}
          /\ res.tag = "Sys" <=> res.raw = NULL
          /\ res.tag = "Sys" => res.w = 0 /\ res.code = errno /\ LibHandles = {}
          /\ res.tag = "Ok" =>
                /\ wr[res.w] = LibZfs(res.raw)
                /\ nat[res.raw].open
                /\ nat[res.raw].closes = 0
    /\ \A h \in LibHandles :
          /\ Cardinality({w \in WrIds : wr[w].kind = "lib" /\ wr[w].h = h}) = 1
          /\ \A w \in WrIds :
                (wr[w].kind = "lib" /\ wr[w].h = h) =>
                    IF wr[w].live
                    THEN nat[h].open /\ nat[h].closes = 0
                    ELSE ~nat[h].open /\ nat[h].closes = 1
    /\ \A w \in WrIds : wr[w].kind = "lib" => wr[w].h \in LibHandles

\* The program has ended after a failed open, a later successful one, and the
\* drop of the LibZfs.
C6_Witness ==
    /\ mode = "done"
    /\ errno \in OsErrs
    /\ \E h \in LibHandles : nat[h].closes = 1

HandleOps == {"drop", "get_state", "pool.get_name", "get_type", "get_name",
              "get_pool_name", "get_pool", "clone"} \cup IterOps

\* C7: a pool or dataset wrapper's native handle is open for as long as the
\* wrapper is live, and no operation or drop of a pool or dataset wrapper is made
\* once the session its handle was opened against has been finalized.
C7_NoUseAfterFinalize ==
    /\ \A w \in PoolWrappers \cup DsWrappers : wr[w].live => nat[wr[w].h].open
    /\ (res.op \in HandleOps /\ res.self \in PoolWrappers \cup DsWrappers) =>
          nat[nat[wr[res.self].h].sess].open

\* The datasets a sequence of native handles refers to.
ObjsOf(hs) == [i \in DOMAIN hs |-> nat[hs[i]].obj]

\* C8: during and after an iteration call the callback has been invoked once
\* for each handle the walk has delivered and has returned 0 each time; the Vec
\* holds one wrapper per delivered handle, in delivery order and without
\* repetition; the walk delivers its datasets in its own order with none left
\* out, so that the returned Vec has as many elements as the walk had datasets
\* to deliver; and no callback runs outside the walk call.
C8_IterationProtocol ==
    /\ walk.rc = 0
    /\ walk.calls = Len(walk.given)
    /\ Len(walk.out) = walk.calls
    /\ \A i \in DOMAIN walk.out :
          /\ wr[walk.out[i]] = ZfsDataset(walk.given[i], "iter")
          /\ \A j \in DOMAIN walk.out : i # j =>
                /\ walk.out[i] # walk.out[j]
                /\ walk.given[i] # walk.given[j]
    /\ ObjsOf(walk.given) \o walk.todo = walk.plan
    /\ res.tag = "Vec" => ~walk.active /\ Len(walk.out) = Len(walk.plan)
    /\ (~walk.active /\ res.tag # "Vec") => walk.calls = 0

\* An iteration has returned a Vec of three handles.
C8_Witness ==
    /\ res.tag = "Vec"
    /\ res.op \in IterOps
    /\ Len(walk.out) = 3
    /\ walk.calls = 3

IterWrappers == {w \in WrIds : wr[w].from = "iter"}

\* C9: a dataset wrapper made by an iteration holds a native handle of its own
\* that no other wrapper holds; the handle is open and has never been closed
\* while the wrapper is live, whatever other dataset wrapper has been dropped
\* around it, so that a call on it is well defined as long as the session is
\* open; and the handle has been closed exactly once when the wrapper has been
\* dropped.
C9_IterHandlesOwned ==
    \A w \in IterWrappers :
        /\ wr[w].h # NULL
        /\ nat[wr[w].h].kind = "ds"
        /\ \A v \in WrIds \ {w} : wr[v].h # wr[w].h
        /\ IF wr[w].live
           THEN /\ nat[wr[w].h].open
                /\ nat[wr[w].h].closes = 0
                /\ nat[nat[wr[w].h].sess].open => Hazard(wr[w].h) = "none"
           ELSE ~nat[wr[w].h].open /\ nat[wr[w].h].closes = 1

\* The parent dataset and one element of a returned Vec have been dropped and
\* another element is still held and open.
C9_Witness ==
    /\ \E p \in DsWrappers : wr[p].from = "dataset_by_name" /\ ~wr[p].live
    /\ \E v, w \in IterWrappers :
          /\ ~wr[v].live
          /\ wr[w].live
          /\ nat[wr[w].h].open

\* C10: the Vec get_snapshots_ordered returns holds the snapshots the walk found
\* in strictly ascending order of creation, whatever order the native layer
\* enumerated them in.
C10_OrderedSnapshots ==
    (res.tag = "Vec" /\ res.op = "get_snapshots_ordered") =>
        LET objs == ObjsOf([i \in DOMAIN walk.out |-> wr[walk.out[i]].h]) IN
        /\ \A i, j \in DOMAIN objs : i < j => World[objs[i]].txg < World[objs[j]].txg
        /\ \A i \in DOMAIN objs : World[objs[i]].type = ZFS_TYPE_SNAPSHOT
        /\ Range(objs) = Range(walk.plan)

\* get_snapshots_ordered has returned all three snapshots of "tank/data".
C10_Witness ==
    /\ res.tag = "Vec"
    /\ res.op = "get_snapshots_ordered"
    /\ Len(walk.out) = 3

\* C11: decoding a defined code of ZPoolState or ZfsType and encoding the
\* variant gives the code back; encoding a variant and decoding the code gives
\* the variant back; and no other variant of the same enumeration encodes to the
\* same code.
C11_EnumRoundTrip ==
    /\ (res.op = "ZPoolState::from" /\ res.tag = "Val") =>
          /\ res.val \in ZPoolStates
          /\ ZPoolState_into(res.val) = res.arg
    /\ res.op = "ZPoolState::into" =>
          /\ ZPoolState_from(res.val) = res.self
          /\ \A v \in ZPoolStates \ {res.self} : ZPoolState_into(v) # res.val
    /\ (res.op = "ZfsType::from" /\ res.tag = "Val") =>
          /\ res.val \in ZfsTypes
          /\ ZfsType_into(res.val) = res.arg
    /\ res.op = "ZfsType::into" =>
          /\ ZfsType_from(res.val) = res.self
          /\ \A t \in ZfsTypes \ {res.self} : ZfsType_into(t) # res.val

\* The code of the last ZfsType variant has been decoded.
C11_Witness ==
    /\ res.op = "ZfsType::from"
    /\ res.tag = "Val"
    /\ res.arg = u32(ZFS_TYPE_BOOKMARK)
    /\ res.val = "Bookmark"

PoolCodes == {ZPoolState_into(v) : v \in ZPoolStates}
TypeCodes == {ZfsType_into(t) : t \in ZfsTypes}

\* C12: decoding a code that is not a defined ZPoolState or ZfsType code, as
\* get_state and get_type do with what the native call returned, ends in a panic
\* that starts the unwind: no variant is returned, and nothing but a panic stops
\* the program.
C12_UndefinedCodePanics ==
    /\ (res.op = "ZPoolState::from" /\ res.arg \notin PoolCodes) =>
          res.tag = "Panic" /\ res.val \notin ZPoolStates /\ mode = "unwinding"
    /\ (res.op = "ZfsType::from" /\ res.arg \notin TypeCodes) =>
          res.tag = "Panic" /\ res.val \notin ZfsTypes /\ mode = "unwinding"
    /\ (res.op = "get_state" /\ as_u32(res.arg) \notin PoolCodes) =>
          res.tag = "Panic" /\ res.val \notin ZPoolStates /\ mode = "unwinding"
    /\ mode = "unwinding" => res.tag = "Panic"

\* The code 0, which no ZfsType variant has, has been decoded.
C12_Witness ==
    /\ res.op = "ZfsType::from"
    /\ res.arg = u32(0)
    /\ res.tag = "Panic"
    /\ mode = "unwinding"

\* Bit i of a u32.
Bit(x, i) == IF i < 16 THEN (x.lo \div 2^i) % 2 ELSE (x.hi \div 2^(i - 16)) % 2

BitsOf(x) == {i \in 0..31 : Bit(x, i) = 1}

\* C13: ZfsTypeMask::all() has all 32 bits set, and the union of that mask with
\* any ZfsType is that mask again.
C13_AllIsAbsorbing ==
    /\ res.op = "ZfsTypeMask::all" => BitsOf(res.val) = 0..31
    /\ (res.op = "ZfsTypeMask::bitor" /\ BitsOf(res.self) = 0..31) =>
          res.val = res.self

\* all() | Bookmark has been computed.
C13_Witness ==
    /\ res.op = "ZfsTypeMask::bitor"
    /\ BitsOf(res.self) = 0..31
    /\ res.arg = "Bookmark"
    /\ BitsOf(res.val) = 0..31

\* The C ints that are pool-state codes.
StateInts ==
    {POOL_STATE_ACTIVE, POOL_STATE_EXPORTED, POOL_STATE_DESTROYED, POOL_STATE_SPARE,
     POOL_STATE_L2CACHE, POOL_STATE_UNINITIALIZED, POOL_STATE_UNAVAIL,
     POOL_STATE_POTENTIALLY_ACTIVE}

\* C15: get_state takes the C int the native call returned as the u32 with the
\* same 32 bits and decodes that: a value equal to a pool-state code gives the
\* variant with that code, and every other value, the negative ones included
\* (they become codes of 2^31 and above), ends in the panic and the unwind.
C15_StateOfNativeInt ==
    res.op = "get_state" =>
        /\ as_i32(as_u32(res.arg)) = res.arg
        /\ res.arg < 0 => as_u32(res.arg).hi >= Half \div 2
        /\ IF res.arg \in StateInts
           THEN /\ res.tag = "Val"
                /\ res.val \in ZPoolStates
                /\ ZPoolState_into(res.val) = u32(res.arg)
           ELSE /\ res.tag = "Panic"
                /\ res.val \notin ZPoolStates
                /\ mode = "unwinding"

\* get_state has been given a negative value whose low 16 bits read as the code
\* of PotentiallyActive.
C15_Witness ==
    /\ res.op = "get_state"
    /\ res.arg = POOL_STATE_POTENTIALLY_ACTIVE - Half
    /\ res.tag = "Panic"

\* Type t's bit is in mask m.
Has(m, t) == BitsOf(ZfsType_into(t)) \subseteq BitsOf(m)

\* C17: the mask made from one ZfsType has exactly that type's one bit; t | rhs
\* has exactly the bits of t and rhs, in either order of the operands, and t | t
\* is the mask of t; mask | rhs has exactly the bits of mask and rhs's bit, is
\* unchanged by a second | rhs, and holds a type exactly when mask held it or it
\* is rhs.
C17_MaskUnion ==
    /\ res.op = "ZfsTypeMask::from" =>
          /\ BitsOf(res.val) = BitsOf(ZfsType_into(res.arg))
          /\ Cardinality(BitsOf(res.val)) = 1
          /\ \A t \in ZfsTypes : Has(res.val, t) <=> t = res.arg
    /\ res.op = "ZfsType::bitor" =>
          /\ BitsOf(res.val) =
                BitsOf(ZfsType_into(res.self)) \cup BitsOf(ZfsType_into(res.arg))
          /\ res.val = ZfsType_bitor(res.arg, res.self)
          /\ res.self = res.arg => res.val = ZfsTypeMask_from(res.self)
          /\ \A t \in ZfsTypes : Has(res.val, t) <=> t \in {res.self, res.arg}
    /\ res.op = "ZfsTypeMask::bitor" =>
          /\ BitsOf(res.val) = BitsOf(res.self) \cup BitsOf(ZfsType_into(res.arg))
          /\ ZfsTypeMask_bitor(res.val, res.arg) = res.val
          /\ \A t \in ZfsTypes :
                Has(res.val, t) <=> (Has(res.self, t) \/ t = res.arg)

\* A mask of all five types has been built by unions, the last one adding a
\* type the mask did not hold.
C17_Witness ==
    /\ res.op = "ZfsTypeMask::bitor"
    /\ ~Has(res.self, res.arg)
    /\ Cardinality(BitsOf(res.val)) = 5

\* The datasets the Vec of the iteration that has just returned holds.
Returned == {nat[wr[walk.out[i]].h].obj : i \in DOMAIN walk.out}

\* C14: get_filesystems returns direct child filesystems only, never the dataset
\* itself, each of type Filesystem and each among the direct children; called on
\* a dataset with exactly one child filesystem and one snapshot, get_filesystems
\* returns just the child filesystem and get_children returns both the child
\* filesystem and the snapshot.
C14_FilesystemsAndChildren ==
    (res.tag = "Vec" /\ res.op \in {"get_filesystems", "get_children"}) =>
        LET o    == ObjOf(wr[res.self].h)
            fs   == ChildrenOf(o, {ZFS_TYPE_FILESYSTEM})
            kids == {c \in Objs : World[c].parent = o}
        IN /\ res.op = "get_filesystems" =>
                 /\ Returned \subseteq kids
                 /\ o \notin Returned
                 /\ \A c \in Returned : World[c].type = ZFS_TYPE_FILESYSTEM
           /\ (Cardinality(fs) = 1 /\ Cardinality(kids) = 2
                 /\ Cardinality(ChildrenOf(o, SnapTypes)) = 1) =>
                 /\ res.op = "get_filesystems" => Returned = fs
                 /\ res.op = "get_children" => Returned = kids

\* C18: every wrapper constructed, by new, a lookup, get_pool, clone or an
\* iteration, holds a non-null native handle, and no query or drop has been made
\* on a wrapper holding NULL.
C18_NonNullHandles ==
    /\ \A w \in WrIds : wr[w].h # NULL
    /\ (res.op \in HandleOps /\ res.self \in WrIds) => wr[res.self].h # NULL

\* C19: an iteration operation always returns a Vec, whatever status the native
\* walk returned: no error, no panic, and a result that carries nothing of the
\* status; the Vec holds exactly the handles collected before the walk stopped,
\* none when it failed at the start; each of them is owned by its Vec element,
\* open when the Vec is returned and closed once when the element is dropped.
C19_IterationNeverFails ==
    /\ res.op \in IterOps =>
          /\ res = Result(res.op, res.self, "Vec", 0, "", 0)
          /\ mode = "running"
          /\ ~walk.active
          /\ ObjsOf([i \in DOMAIN walk.out |-> wr[walk.out[i]].h]) = walk.plan
          /\ \A i \in DOMAIN walk.out :
                /\ wr[walk.out[i]].live
                /\ nat[wr[walk.out[i]].h].open
                /\ nat[wr[walk.out[i]].h].closes = 0
    /\ \A w \in IterWrappers :
          nat[wr[w].h].closes = IF wr[w].live THEN 0 ELSE 1

\* An iteration whose walk failed after delivering one of several children has
\* returned a Vec of one handle.
C19_Witness ==
    /\ res.op \in IterOps
    /\ res.tag = "Vec"
    /\ iter_status(ObjOf(wr[res.self].h), iter_call(res.op), walk.plan) # 0
    /\ Len(walk.out) = 1

NameOps == {"pool.get_name", "get_name", "get_pool_name"}

\* What reading string s gives when the native table is n: its own bytes, or for
\* a string whose storage is a native buffer, what that buffer holds.
Content(n, s) ==
    IF s.buf = NULL THEN s.bytes
    ELSE IF n[s.buf].open THEN s.bytes
    ELSE InvalidUtf8

\* C16: a name query leaves the native handles and the wrappers as they were; the
\* name it returns is the native name at the time of the call; and the returned
\* name reads the same for as long as the caller keeps it, in particular after
\* the handle it was read from has been closed.
C16_NameIsCopy ==
    [][/\ res'.op \in NameOps => (nat' = nat /\ wr' = wr)
       /\ (res'.op \in NameOps /\ res'.tag = "Val") =>
             /\ held'.h = wr[res'.self].h
             /\ held'.s.bytes = res'.code
             /\ res'.code = held'.name
             /\ Content(nat', held'.s) = held'.name
       /\ (held # NoHeld /\ held' = held) =>
             /\ Content(nat', held.s) = Content(nat, held.s)
             /\ Content(nat', held.s) = held.name]_vars

\* The name "tank/data" is still held after the dataset handle it was read from
\* has been closed.
C16_Witness ==
    /\ held # NoHeld
    /\ held.name = "tank/data"
    /\ res.op = "drop"
    /\ ~nat[held.h].open
    /\ nat[held.h].closes = 1

====
